---- MODULE Spec2Model ----
(***************************************************************************)
(* Power sequencing for the Telit SL869 GPS module                         *)
(* (telit-sl869-power.c): the probe sequence that acquires the two GPIO    *)
(* lines, asserts vbatt and dwells, and the steady-state operations        *)
(* (sysfs attribute show/store, suspend, resume) that all go through       *)
(* power_set.                                                              *)
(***************************************************************************)
EXTENDS Integers, Sequences, FiniteSets, TLC

(***************************************************************************)
(* Bounds of the model.                                                    *)
(***************************************************************************)
\* longest text written to the attribute in the sequential specification
MaxLen == 3
\* number of attribute/suspend/resume calls made in one behaviour of the
\* sequential specification
MaxCalls == 4
\* number of calls made in one behaviour of the concurrent specification
ConcCalls == 4
\* number of independent execution contexts that call into the driver
NThreads == 2

(***************************************************************************)
(* Kernel constants the driver uses.                                       *)
(***************************************************************************)
ENOENT == 2
ENOMEM == 12
ENODEV == 19
EINVAL == 22
ERANGE == 34
EPROBE_DEFER == 517
\* include/linux/of_gpio.h
OF_GPIO_ACTIVE_LOW == 1
\* include/linux/gpio.h: GPIOF_DIR_OUT | GPIOF_INIT_LOW, GPIOF_DIR_OUT | GPIOF_INIT_HIGH
GPIOF_OUT_INIT_LOW == 0
GPIOF_OUT_INIT_HIGH == 2
GPIOF_INIT_HIGH == 2
GPIOF_ACTIVE_LOW == 4
\* include/asm-generic/gpio.h
ARCH_NR_GPIOS == 512
\* msleep(1000)
DWELL_MS == 1000
\* the `long` that kstrtol fills is 32 bits wide on the ILP32 targets this
\* driver is built for.  One limit stands for the overflow test of the
\* accumulator and for the range test of the result; no text of MaxLen
\* characters reaches it, nor the 2^63-1 of an LP64 build
LONG_MAX == 2147483647

(***************************************************************************)
(* The device tree node: the GPIO number behind each of the two named      *)
(* properties, when the property resolves.                                 *)
(***************************************************************************)
OfGpio(name) == IF name = "vbatt-enable" THEN 3 ELSE 5

GpioNumbers == {OfGpio("vbatt-enable"), OfGpio("power-enable")}

\* a NULL struct gpio_desc pointer
NULL == -1

Threads == 1 .. NThreads

(***************************************************************************)
(* Bit operations on the small flag words of the probe.                    *)
(***************************************************************************)
RECURSIVE BitAnd(_, _)
BitAnd(a, b) ==
    IF a = 0 \/ b = 0 THEN 0
    ELSE (a % 2) * (b % 2) + 2 * BitAnd(a \div 2, b \div 2)

BitOr(a, b) == a + b - BitAnd(a, b)

BoolToInt(b) == IF b THEN 1 ELSE 0

(***************************************************************************)
(* Text: a string is a sequence of one-character strings; "" stands for    *)
(* the terminating NUL read past the end.                                  *)
(***************************************************************************)
Alphabet == {"0", "1", "8", "-", "+", "x", "\n"}

Texts(n) == UNION {[1 .. k -> Alphabet] : k \in 0 .. n}

At(s, i) == IF i >= 1 /\ i <= Len(s) THEN s[i] ELSE ""

Drop(s, n) == IF n >= Len(s) THEN <<>> ELSE SubSeq(s, n + 1, Len(s))

DecDigit ==
    ("0" :> 0) @@ ("1" :> 1) @@ ("2" :> 2) @@ ("3" :> 3) @@ ("4" :> 4) @@
    ("5" :> 5) @@ ("6" :> 6) @@ ("7" :> 7) @@ ("8" :> 8) @@ ("9" :> 9)

HexLetter ==
    ("a" :> 10) @@ ("b" :> 11) @@ ("c" :> 12) @@ ("d" :> 13) @@ ("e" :> 14) @@
    ("f" :> 15) @@ ("A" :> 10) @@ ("B" :> 11) @@ ("C" :> 12) @@ ("D" :> 13) @@
    ("E" :> 14) @@ ("F" :> 15)

\* the value of character c as a digit, or -1 when it is none
DigitValue(c) ==
    IF c \in DOMAIN DecDigit THEN DecDigit[c]
    ELSE IF c \in DOMAIN HexLetter THEN HexLetter[c]
    ELSE -1

isxdigit(c) == DigitValue(c) >= 0

tolower(c) == IF c = "X" THEN "x" ELSE c

(***************************************************************************)
(* kstrtol(buf, 0, &enabled) as lib/kstrtox.c computes it.                 *)
(***************************************************************************)
\* _parse_integer_fixup_radix with *base == 0: the radix chosen
fixup_radix(s) ==
    IF At(s, 1) = "0"
    THEN IF tolower(At(s, 2)) = "x" /\ isxdigit(At(s, 3)) THEN 16 ELSE 8
    ELSE 10

\* _parse_integer_fixup_radix: the number of prefix characters skipped
fixup_skip(s, base) ==
    IF base = 16 /\ At(s, 1) = "0" /\ tolower(At(s, 2)) = "x" THEN 2 ELSE 0

\* _parse_integer: consume digits of the radix from position i on;
\* rv counts them, res accumulates, overflow is sticky
RECURSIVE parse_integer(_, _, _, _, _, _)
parse_integer(s, base, i, rv, res, overflow) ==
    LET val == DigitValue(At(s, i))
    IN  IF val < 0 \/ val >= base
        THEN [rv |-> rv, res |-> res, overflow |-> overflow]
        ELSE IF overflow \/ res > (LONG_MAX - val) \div base
             THEN parse_integer(s, base, i + 1, rv + 1, res, TRUE)
             ELSE parse_integer(s, base, i + 1, rv + 1, res * base + val, FALSE)

\* _kstrtoull: radix, digits, one optional trailing newline, then the end
kstrtoull_(s) ==
    LET base == fixup_radix(s)
        t    == Drop(s, fixup_skip(s, base))
        p    == parse_integer(t, base, 1, 0, 0, FALSE)
        rest == Drop(t, p.rv)
        tail == IF At(rest, 1) = "\n" THEN Drop(rest, 1) ELSE rest
    IN  IF p.overflow THEN [ret |-> -ERANGE, val |-> 0]
        ELSE IF p.rv = 0 THEN [ret |-> -EINVAL, val |-> 0]
        ELSE IF At(tail, 1) # "" THEN [ret |-> -EINVAL, val |-> 0]
        ELSE [ret |-> 0, val |-> p.res]

\* kstrtoull: one leading '+' is accepted
kstrtoull(s) == IF At(s, 1) = "+" THEN kstrtoull_(Drop(s, 1)) ELSE kstrtoull_(s)

\* kstrtoll / kstrtol: a leading '-' negates what _kstrtoull parsed
kstrtol(s) ==
    IF At(s, 1) = "-"
    THEN LET r == kstrtoull_(Drop(s, 1))
         IN  IF r.ret < 0 THEN r ELSE [ret |-> 0, val |-> 0 - r.val]
    ELSE kstrtoull(s)

(***************************************************************************)
(* sprintf(buf, "%d\n", n) for n >= 0: the text written.                   *)
(***************************************************************************)
DigitChar == <<"0", "1", "2", "3", "4", "5", "6", "7", "8", "9">>

RECURSIVE sprintf_d(_)
sprintf_d(n) ==
    IF n < 10 THEN <<DigitChar[n + 1]>>
    ELSE sprintf_d(n \div 10) \o <<DigitChar[(n % 10) + 1]>>

(***************************************************************************)
(* State.                                                                  *)
(***************************************************************************)
VARIABLES
    env,        \* what the platform answers during probe (fixed per behaviour)
    ppc,        \* position of sl869_power_probe
    pret,       \* value probe returned (meaningful once ppc = "done")
    gpio,       \* probe's local `gpio`
    flags,      \* probe's local `flags`
    lines,      \* the GPIO lines: claimed, FLAG_ACTIVE_LOW, electrical level
    nwrites,    \* per line, the number of gpiod_set_value_cansleep calls on it
    power,      \* struct sl869_power
    sysfs,      \* the attribute group exists
    dwell,      \* ms slept since vbatt was asserted
    thr,        \* per execution context, the call it is in
    last,       \* the call that completed last
    prev,       \* the call that completed before it
    ncalls,     \* calls started
    nsets,      \* calls of power_set started
    busy,       \* of the power_set calls that run together, how many started
                \* and whether line and flag agreed when the first did
    nflips,     \* changes of power.enabled
    overlapped  \* some call started while another was in progress

vars == <<env, ppc, pret, gpio, flags, lines, nwrites, power, sysfs, dwell,
          thr, last, prev, ncalls, nsets, busy, nflips, overlapped>>

probeVars == <<ppc, pret, gpio, flags, sysfs, dwell>>

callVars == <<thr, last, prev, ncalls, nsets, busy, nflips, overlapped>>

VBATT == OfGpio("vbatt-enable")

POWER == OfGpio("power-enable")

LookupResults == {"ok", "defer", "noent"}

Env ==
    [alloc_ok : BOOLEAN,
     of_vbatt : LookupResults, vbatt_low : BOOLEAN, vbatt_free : BOOLEAN,
     of_power : LookupResults, power_low : BOOLEAN, power_free : BOOLEAN,
     sysfs_ok : BOOLEAN]

EnvOf(name) == IF name = "vbatt-enable" THEN env.of_vbatt ELSE env.of_power

EnvLow(name) == IF name = "vbatt-enable" THEN env.vbatt_low ELSE env.power_low

EnvFree(g) == IF g = VBATT THEN env.vbatt_free ELSE env.power_free

\* a call record: which operation, whether it reached power_set and with
\* which argument, power.enabled when it started, the power-line writes it
\* made, and for the attribute operations the text size, what kstrtol
\* returned, the sign of the parsed value, the return value and the text
\* produced
NoCall ==
    [pc |-> "idle", op |-> "none", called |-> FALSE, set |-> FALSE,
     before |-> FALSE, writes |-> 0, size |-> 0, kret |-> 0, sgn |-> 0,
     ret |-> 0, out |-> <<>>]

\* what is remembered of the call before the last one
Older(c) ==
    [op |-> c.op, called |-> c.called, set |-> c.set, before |-> c.before,
     writes |-> c.writes, sgn |-> c.sgn, failed |-> c.kret # 0]

Sign(v) == IF v < 0 THEN -1 ELSE IF v > 0 THEN 1 ELSE 0

Init ==
    /\ env \in Env
    /\ ppc = "alloc"
    /\ pret = 0
    /\ gpio = 0
    /\ flags = 0
    /\ lines \in [GpioNumbers -> [claimed : {FALSE}, active_low : {FALSE},
                                  level : {0, 1}]]
    /\ nwrites = [g \in GpioNumbers |-> 0]
    /\ power = [vbatt_enable |-> NULL, power_enable |-> NULL, enabled |-> FALSE]
    /\ sysfs = FALSE
    /\ dwell = 0
    /\ thr = [t \in Threads |-> NoCall]
    /\ last = NoCall
    /\ prev = Older(NoCall)
    /\ ncalls = 0
    /\ nsets = 0
    /\ busy = [n |-> 0, ok |-> TRUE]
    /\ nflips = 0
    /\ overlapped = FALSE

(***************************************************************************)
(* The GPIO library, as the driver uses it.                                *)
(***************************************************************************)
gpio_is_valid(number) == number >= 0 /\ number < ARCH_NR_GPIOS

\* of_get_named_gpio_flags(np, name, 0, &flags): the GPIO number or a
\* negative errno; *flags is filled from the specifier when the lookup
\* succeeds and is otherwise left as it was or cleared, depending on the
\* kernel version
of_get_named_gpio_flags(name) ==
    IF EnvOf(name) = "ok"
    THEN {[gpio |-> OfGpio(name),
           flags |-> IF EnvLow(name) THEN OF_GPIO_ACTIVE_LOW ELSE 0]}
    ELSE LET err == IF EnvOf(name) = "defer" THEN -EPROBE_DEFER ELSE -ENOENT
         IN  {[gpio |-> err, flags |-> f] : f \in {flags, 0}}

\* an active-low line initialised low (mutant of RequestFlags)
RequestFlags_InitLow(of_flags) ==
    IF BitAnd(of_flags, OF_GPIO_ACTIVE_LOW) # 0
    THEN BitOr(GPIOF_ACTIVE_LOW, GPIOF_OUT_INIT_LOW)
    ELSE GPIOF_OUT_INIT_LOW

\* lines 104-107 and 122-125: the request flags for a polarity
RequestFlags(of_flags) ==
    IF BitAnd(of_flags, OF_GPIO_ACTIVE_LOW) # 0
    THEN BitOr(GPIOF_ACTIVE_LOW, GPIOF_OUT_INIT_HIGH)
    ELSE GPIOF_OUT_INIT_LOW

\* devm_gpio_request_one succeeds on a valid, unclaimed, available line
gpio_request_ok(g) ==
    /\ gpio_is_valid(g)
    /\ g \in GpioNumbers
    /\ ~lines[g].claimed
    /\ EnvFree(g)

\* gpio_request_one on success: claim, FLAG_ACTIVE_LOW from GPIOF_ACTIVE_LOW,
\* gpiod_direction_output_raw with the GPIOF_INIT_HIGH bit
gpio_request_one(g, f) ==
    [lines EXCEPT ![g] = [claimed    |-> TRUE,
                          active_low |-> BitAnd(f, GPIOF_ACTIVE_LOW) # 0,
                          level      |-> IF BitAnd(f, GPIOF_INIT_HIGH) # 0
                                         THEN 1 ELSE 0]]

\* a probe that leaks what it requested (mutant of devres_release_all)
devres_release_none == lines

\* devres: every line requested with devm_ is freed when probe fails or the
\* device is unbound; freeing clears FLAG_REQUESTED and FLAG_ACTIVE_LOW and
\* does not drive the line
devres_release_all ==
    [g \in GpioNumbers |->
        [lines[g] EXCEPT !.claimed = FALSE, !.active_low = FALSE]]

\* a write that ignores the polarity (mutant of gpiod_set_value_cansleep)
gpiod_set_raw_value_cansleep(desc, value) ==
    [lines EXCEPT ![desc].level = value]

\* gpiod_set_value_cansleep(desc, value): the level after the write
gpiod_set_value_cansleep(desc, value) ==
    [lines EXCEPT ![desc].level =
        IF lines[desc].active_low THEN 1 - value ELSE value]

\* gpiod_get_value: the logical value of a line
LogicalValue(g) ==
    IF lines[g].active_low THEN lines[g].level = 0 ELSE lines[g].level = 1

(***************************************************************************)
(* sl869_power_probe, one action per stretch between blocking calls.       *)
(***************************************************************************)
\* a return from probe; on an error the driver core releases the devres
ProbeReturn(err, held) ==
    /\ ppc' = "done"
    /\ pret' = err
    /\ lines' = IF err # 0 THEN devres_release_all ELSE held

\* a probe that creates the attribute group first (mutant of ProbeAlloc)
ProbeAlloc_SysfsFirst ==
    /\ ppc = "alloc"
    /\ IF env.alloc_ok
       THEN /\ power' = [vbatt_enable |-> NULL, power_enable |-> NULL,
                         enabled |-> FALSE]
            /\ sysfs' = env.sysfs_ok
            /\ ppc' = "vbatt_lookup"
            /\ UNCHANGED <<pret, lines>>
       ELSE /\ ProbeReturn(-ENOMEM, lines)
            /\ UNCHANGED <<power, sysfs>>
    /\ UNCHANGED <<env, gpio, flags, nwrites, dwell, callVars>>

\* lines 90-95
ProbeAlloc ==
    /\ ppc = "alloc"
    /\ IF env.alloc_ok
       THEN /\ power' = [vbatt_enable |-> NULL, power_enable |-> NULL,
                         enabled |-> FALSE]
            /\ ppc' = "vbatt_lookup"
            /\ UNCHANGED <<pret, lines>>
       ELSE /\ ProbeReturn(-ENOMEM, lines)
            /\ UNCHANGED power
    /\ UNCHANGED <<env, gpio, flags, nwrites, sysfs, dwell, callVars>>

\* lines 97-107
ProbeVbattLookup ==
    /\ ppc = "vbatt_lookup"
    /\ \E r \in of_get_named_gpio_flags("vbatt-enable") :
        /\ gpio' = r.gpio
        /\ IF ~gpio_is_valid(r.gpio)
           THEN /\ ProbeReturn(r.gpio, lines)
                /\ flags' = r.flags
           ELSE /\ flags' = RequestFlags(r.flags)
                /\ ppc' = "vbatt_request"
                /\ UNCHANGED <<pret, lines>>
    /\ UNCHANGED <<env, nwrites, power, sysfs, dwell, callVars>>

\* a probe that asserts vbatt as soon as it holds the line (mutant of
\* ProbeVbattRequest)
ProbeVbattRequest_AssertEarly ==
    /\ ppc = "vbatt_request"
    /\ IF gpio_request_ok(gpio)
       THEN /\ lines' = [gpio_request_one(gpio, flags) EXCEPT ![gpio].level =
                            IF BitAnd(flags, GPIOF_ACTIVE_LOW) # 0
                            THEN 0 ELSE 1]
            /\ nwrites' = [nwrites EXCEPT ![gpio] = @ + 1]
            /\ power' = [power EXCEPT !.vbatt_enable = gpio]
            /\ ppc' = "power_lookup"
            /\ UNCHANGED pret
       ELSE /\ ProbeReturn(-ENODEV, lines)
            /\ UNCHANGED <<power, nwrites>>
    /\ UNCHANGED <<env, gpio, flags, sysfs, dwell, callVars>>

\* lines 109-118
ProbeVbattRequest ==
    /\ ppc = "vbatt_request"
    /\ IF gpio_request_ok(gpio)
       THEN /\ lines' = gpio_request_one(gpio, flags)
            /\ power' = [power EXCEPT !.vbatt_enable = gpio]
            /\ ppc' = "power_lookup"
            /\ UNCHANGED pret
       ELSE /\ ProbeReturn(-ENODEV, lines)
            /\ UNCHANGED power
    /\ UNCHANGED <<env, gpio, flags, nwrites, sysfs, dwell, callVars>>

\* a second lookup that leaves flags as the first request left them
\* (mutant of ProbePowerLookup)
ProbePowerLookup_StaleFlags ==
    /\ ppc = "power_lookup"
    /\ \E r \in of_get_named_gpio_flags("power-enable") :
        /\ gpio' = r.gpio
        /\ flags' = RequestFlags(flags)
    /\ ppc' = "power_request"
    /\ UNCHANGED <<env, pret, lines, nwrites, power, sysfs, dwell, callVars>>

\* lines 120-125: the result of the lookup is not tested
ProbePowerLookup ==
    /\ ppc = "power_lookup"
    /\ \E r \in of_get_named_gpio_flags("power-enable") :
        /\ gpio' = r.gpio
        /\ flags' = RequestFlags(r.flags)
    /\ ppc' = "power_request"
    /\ UNCHANGED <<env, pret, lines, nwrites, power, sysfs, dwell, callVars>>

\* lines 127-135
ProbePowerRequest ==
    /\ ppc = "power_request"
    /\ IF gpio_request_ok(gpio)
       THEN /\ lines' = gpio_request_one(gpio, flags)
            /\ power' = [power EXCEPT !.power_enable = gpio]
            /\ ppc' = "assert_vbatt"
            /\ UNCHANGED pret
       ELSE /\ ProbeReturn(-ENODEV, lines)
            /\ UNCHANGED power
    /\ UNCHANGED <<env, gpio, flags, nwrites, sysfs, dwell, callVars>>

\* line 141
ProbeAssertVbatt ==
    /\ ppc = "assert_vbatt"
    /\ lines' = gpiod_set_value_cansleep(power.vbatt_enable, 1)
    /\ nwrites' = [nwrites EXCEPT ![power.vbatt_enable] = @ + 1]
    /\ dwell' = 0
    /\ ppc' = "msleep"
    /\ UNCHANGED <<env, pret, gpio, flags, power, sysfs, callVars>>

\* a probe that goes on without sleeping (mutant of ProbeMsleep)
ProbeMsleep_Skipped ==
    /\ ppc = "msleep"
    /\ ppc' = "sysfs"
    /\ UNCHANGED <<env, pret, gpio, flags, lines, nwrites, power, sysfs,
                   dwell, callVars>>

\* line 142
ProbeMsleep ==
    /\ ppc = "msleep"
    /\ dwell' = dwell + DWELL_MS
    /\ ppc' = "sysfs"
    /\ UNCHANGED <<env, pret, gpio, flags, lines, nwrites, power, sysfs,
                   callVars>>

\* lines 144-151
ProbeSysfs ==
    /\ ppc = "sysfs"
    /\ IF env.sysfs_ok
       THEN /\ sysfs' = TRUE
            /\ ProbeReturn(0, lines)
       ELSE /\ sysfs' = FALSE
            /\ ProbeReturn(-ENOMEM, lines)
    /\ UNCHANGED <<env, gpio, flags, nwrites, power, dwell, callVars>>

Probe ==
    \/ ProbeAlloc
    \/ ProbeVbattLookup
    \/ ProbeVbattRequest
    \/ ProbePowerLookup
    \/ ProbePowerRequest
    \/ ProbeAssertVbatt
    \/ ProbeMsleep
    \/ ProbeSysfs

\* the driver is bound: probe returned 0 and remove has not run
Bound == ppc = "done" /\ pret = 0

AllIdle == \A t \in Threads : thr[t].pc = "idle"

(***************************************************************************)
(* Calls into the bound driver.  A call runs in an execution context t;    *)
(* power_set is three steps, since the line write may sleep: the test of   *)
(* line 42, the write of line 45, the assignment of line 46.               *)
(***************************************************************************)
\* a call that goes on to power_set begins in context t
Enter(t, c) ==
    /\ thr' = [thr EXCEPT ![t] = c]
    /\ ncalls' = ncalls + 1
    /\ nsets' = nsets + 1
    /\ busy' = IF AllIdle
               THEN [n |-> 1, ok |-> LogicalValue(POWER) = power.enabled]
               ELSE [busy EXCEPT !.n = @ + 1]
    /\ overlapped' = (overlapped \/ ~AllIdle)
    /\ UNCHANGED <<last, prev>>

\* the call c of context t returns
Complete(t, c) ==
    /\ thr' = [thr EXCEPT ![t] = NoCall]
    /\ last' = [c EXCEPT !.pc = "done"]
    /\ prev' = Older(last)

\* suspend and resume reporting a failure (mutant of HandlerRet)
HandlerRet_Errno(c) == IF c.op = "store" THEN c.size ELSE -EINVAL

\* what the handler returns once power_set has returned: `size` from
\* enabled_store (line 69), 0 from suspend and resume (lines 165, 173)
HandlerRet(c) == IF c.op = "store" THEN c.size ELSE 0

\* power_set returning early when there is work to do (mutant of
\* power_set_guard)
power_set_guard_Inverted(enabled, set) == enabled # set

\* power_set without its guard (mutant of power_set_guard)
power_set_guard_Missing(enabled, set) == FALSE

\* line 42: the guard of power_set
power_set_guard(enabled, set) == enabled = set

\* line 42-43
PowerSetCheck(t) ==
    /\ thr[t].pc = "check"
    /\ IF power_set_guard(power.enabled, thr[t].set)
       THEN Complete(t, [thr[t] EXCEPT !.ret = HandlerRet(thr[t])])
       ELSE /\ thr' = [thr EXCEPT ![t].pc = "set_line"]
            /\ UNCHANGED <<last, prev>>
    /\ UNCHANGED <<env, probeVars, lines, nwrites, power, ncalls, nsets, busy,
                   nflips, overlapped>>

\* power_set writing the other descriptor (mutant of PowerSetLine)
PowerSetLine_Vbatt(t) ==
    /\ thr[t].pc = "set_line"
    /\ lines' = gpiod_set_value_cansleep(power.vbatt_enable,
                                         BoolToInt(thr[t].set))
    /\ nwrites' = [nwrites EXCEPT ![power.vbatt_enable] = @ + 1]
    /\ thr' = [thr EXCEPT ![t].pc = "set_flag", ![t].writes = @ + 1]
    /\ UNCHANGED <<env, probeVars, power, last, prev, ncalls, nsets, busy,
                   nflips, overlapped>>

\* line 45
PowerSetLine(t) ==
    /\ thr[t].pc = "set_line"
    /\ lines' = gpiod_set_value_cansleep(power.power_enable,
                                         BoolToInt(thr[t].set))
    /\ nwrites' = [nwrites EXCEPT ![power.power_enable] = @ + 1]
    /\ thr' = [thr EXCEPT ![t].pc = "set_flag", ![t].writes = @ + 1]
    /\ UNCHANGED <<env, probeVars, power, last, prev, ncalls, nsets, busy,
                   nflips, overlapped>>

\* power_set that forgets the flag (mutant of PowerSetFlag)
PowerSetFlag_Forgotten(t) ==
    /\ thr[t].pc = "set_flag"
    /\ Complete(t, [thr[t] EXCEPT !.ret = HandlerRet(thr[t])])
    /\ UNCHANGED <<env, probeVars, lines, nwrites, power, ncalls, nsets, busy,
                   nflips, overlapped>>

\* line 46, and the returns of power_set and of the handler
PowerSetFlag(t) ==
    /\ thr[t].pc = "set_flag"
    /\ power' = [power EXCEPT !.enabled = thr[t].set]
    /\ nflips' = IF power.enabled # thr[t].set THEN nflips + 1 ELSE nflips
    /\ Complete(t, [thr[t] EXCEPT !.ret = HandlerRet(thr[t])])
    /\ UNCHANGED <<env, probeVars, lines, nwrites, ncalls, nsets, busy,
                   overlapped>>

\* the call of power_set(power, set) from handler op
CallPowerSet(t, op, set, size, val) ==
    Enter(t, [NoCall EXCEPT !.pc = "check", !.op = op, !.called = TRUE,
                            !.set = set, !.before = power.enabled,
                            !.size = size, !.sgn = Sign(val)])

\* line 54: the text enabled_show writes
show_text(enabled) == sprintf_d(BoolToInt(enabled)) \o <<"\n">>

\* lines 49-55
enabled_show(t) ==
    /\ sysfs
    /\ thr[t].pc = "idle"
    /\ ncalls' = ncalls + 1
    /\ overlapped' = (overlapped \/ ~AllIdle)
    /\ UNCHANGED <<nsets, busy>>
    /\ LET text == show_text(power.enabled)
       IN  Complete(t, [NoCall EXCEPT !.op = "show",
                                      !.before = power.enabled,
                                      !.out = text, !.ret = Len(text)])
    /\ UNCHANGED <<env, probeVars, lines, nwrites, power, nflips>>

\* only positive values enable (mutant of notnot)
notnot_Positive(v) == v > 0

\* line 68: !!enabled
notnot(v) == v # 0

\* line 64: a write of the text buf arrives as its size and what
\* kstrtol(buf, 0, &enabled) makes of it.  The parse reads nothing but buf,
\* so it is evaluated once per text
sysfs_write(buf) == [size |-> Len(buf), parsed |-> kstrtol(buf)]

\* the writes of every text of at most n characters
Writes(n) == {sysfs_write(buf) : buf \in Texts(n)}

SeqWrites == Writes(MaxLen)

\* the concurrent writers write "0" or "1"
ConcWrites == {sysfs_write(<<"0">>), sysfs_write(<<"1">>)}

\* enabled_store assigning the flag itself (mutant of enabled_store)
enabled_store_Direct(t, w) ==
    /\ sysfs
    /\ thr[t].pc = "idle"
    /\ ncalls' = ncalls + 1
    /\ overlapped' = (overlapped \/ ~AllIdle)
    /\ LET ret == w.parsed.ret
           set == notnot(w.parsed.val)
       IN  IF ret # 0
           THEN /\ Complete(t, [NoCall EXCEPT !.op = "store",
                                              !.before = power.enabled,
                                              !.size = w.size,
                                              !.kret = ret, !.ret = ret])
                /\ UNCHANGED <<power, nflips>>
           ELSE /\ power' = [power EXCEPT !.enabled = set]
                /\ nflips' = IF power.enabled # set THEN nflips + 1
                             ELSE nflips
                /\ Complete(t, [NoCall EXCEPT !.op = "store",
                                              !.set = set,
                                              !.before = power.enabled,
                                              !.size = w.size,
                                              !.sgn = Sign(w.parsed.val),
                                              !.ret = w.size])
    /\ UNCHANGED <<env, probeVars, lines, nwrites, nsets, busy>>

\* enabled_store without the test of line 65 (mutant of enabled_store)
enabled_store_Unchecked(t, w) ==
    /\ sysfs
    /\ thr[t].pc = "idle"
    /\ Enter(t, [NoCall EXCEPT !.pc = "check", !.op = "store",
                               !.called = TRUE,
                               !.set = notnot(w.parsed.val),
                               !.before = power.enabled,
                               !.size = w.size, !.kret = w.parsed.ret,
                               !.sgn = Sign(w.parsed.val)])
    /\ UNCHANGED <<env, probeVars, lines, nwrites, power, nflips>>

\* lines 57-70, up to the call of power_set; w is the write that arrives
enabled_store(t, w) ==
    /\ sysfs
    /\ thr[t].pc = "idle"
    /\ LET ret     == w.parsed.ret
           enabled == w.parsed.val
       IN  IF ret # 0
           THEN /\ ncalls' = ncalls + 1
                /\ overlapped' = (overlapped \/ ~AllIdle)
                /\ UNCHANGED <<nsets, busy>>
                /\ Complete(t, [NoCall EXCEPT !.op = "store",
                                              !.before = power.enabled,
                                              !.size = w.size,
                                              !.kret = ret, !.ret = ret])
           ELSE CallPowerSet(t, "store", notnot(enabled), w.size, enabled)
    /\ UNCHANGED <<env, probeVars, lines, nwrites, power, nflips>>

\* lines 160-166, up to the call of power_set
sl869_power_suspend(t) ==
    /\ Bound
    /\ thr[t].pc = "idle"
    /\ CallPowerSet(t, "suspend", FALSE, 0, 0)
    /\ UNCHANGED <<env, probeVars, lines, nwrites, power, nflips>>

\* resume pasted from suspend (mutant of sl869_power_resume)
sl869_power_resume_Pasted(t) ==
    /\ Bound
    /\ thr[t].pc = "idle"
    /\ CallPowerSet(t, "resume", FALSE, 0, 0)
    /\ UNCHANGED <<env, probeVars, lines, nwrites, power, nflips>>

\* lines 168-174, up to the call of power_set
sl869_power_resume(t) ==
    /\ Bound
    /\ thr[t].pc = "idle"
    /\ CallPowerSet(t, "resume", TRUE, 0, 0)
    /\ UNCHANGED <<env, probeVars, lines, nwrites, power, nflips>>

\* lines 154-158; sysfs_remove_group waits for the attribute's callers, and
\* the driver core then releases the devres
sl869_power_remove ==
    /\ Bound
    /\ AllIdle
    /\ sysfs' = FALSE
    /\ ppc' = "removed"
    /\ lines' = devres_release_all
    /\ UNCHANGED <<env, pret, gpio, flags, nwrites, power, dwell, callVars>>

PowerSetStep(t) == PowerSetCheck(t) \/ PowerSetLine(t) \/ PowerSetFlag(t)

(***************************************************************************)
(* Spec: the callers take turns, each call runs to completion before the   *)
(* next begins.  Which context makes a call is then immaterial, and one    *)
(* context makes them all.                                                 *)
(***************************************************************************)
Turn == CHOOSE t \in Threads : TRUE

Next ==
    \/ Probe
    \/ sl869_power_remove
    \/ \E t \in {Turn} :
        \/ AllIdle /\ ncalls < MaxCalls /\ enabled_show(t)
        \/ AllIdle /\ ncalls < MaxCalls /\
                \E w \in SeqWrites : enabled_store(t, w)
        \/ AllIdle /\ ncalls < MaxCalls /\ sl869_power_suspend(t)
        \/ AllIdle /\ ncalls < MaxCalls /\ sl869_power_resume(t)
        \/ PowerSetStep(t)

Spec == Init /\ [][Next]_vars

(***************************************************************************)
(* SpecLive: Spec with the scheduling the kernel gives a caller: a context *)
(* that is inside power_set keeps running until it returns.                *)
(***************************************************************************)
Fairness == \A t \in Threads : WF_vars(PowerSetStep(t))

SpecLive == Spec /\ Fairness

(***************************************************************************)
(* SpecConc: attribute reads and writes arrive from independent contexts   *)
(* with no lock between them.  Suspend and resume run with user tasks      *)
(* frozen, so they do not overlap another call.                            *)
(***************************************************************************)
NextConc ==
    \/ Probe
    \/ sl869_power_remove
    \/ \E t \in Threads :
        \/ ncalls < ConcCalls /\ enabled_show(t)
        \/ ncalls < ConcCalls /\ \E w \in ConcWrites : enabled_store(t, w)
        \/ AllIdle /\ ncalls < ConcCalls /\ sl869_power_suspend(t)
        \/ AllIdle /\ ncalls < ConcCalls /\ sl869_power_resume(t)
        \/ PowerSetStep(t)

SpecConc == Init /\ [][NextConc]_vars

(***************************************************************************)
(* Properties.                                                             *)
(***************************************************************************)
TextOf(b) == IF b THEN <<"1", "\n">> ELSE <<"0", "\n">>

\* C1: while the driver is bound and no call is in progress, the logical
\* value of the power line equals power.enabled (sequential callers).
C1_LineEqualsEnabled ==
    (Bound /\ AllIdle) => (LogicalValue(POWER) = power.enabled)

C1_Witness ==
    /\ Bound /\ AllIdle
    /\ env.power_low
    /\ prev.op = "suspend" /\ prev.writes = 1
    /\ last.op = "store" /\ last.writes = 1
    /\ power.enabled /\ LogicalValue(POWER)

\* C2: probe never returns between asserting vbatt and the end of the
\* 1000 ms dwell; vbatt is logically true when probe has returned 0; and
\* no attribute, suspend or resume call exists before the dwell is over.
C2_DwellBeforeReturn ==
    /\ (ppc = "done" /\ nwrites[VBATT] > 0) => dwell >= DWELL_MS
    /\ Bound => (LogicalValue(VBATT) /\ nwrites[VBATT] > 0)
    /\ (sysfs \/ ncalls > 0) => (nwrites[VBATT] > 0 /\ dwell >= DWELL_MS)

C2_Witness ==
    /\ ppc = "done" /\ pret # 0
    /\ nwrites[VBATT] = 1
    /\ dwell >= DWELL_MS

\* C3: while the driver is bound, vbatt is logically true and has been
\* written exactly once, whatever calls were made.
C3_VbattHeld ==
    Bound => (LogicalValue(VBATT) /\ nwrites[VBATT] = 1)

C3_Witness ==
    /\ Bound /\ AllIdle
    /\ ncalls >= 3 /\ nflips >= 2
    /\ LogicalValue(VBATT) /\ nwrites[VBATT] = 1

\* C4: two successive power_set calls with the same argument b write the
\* power line once if b differed from enabled before the first and never
\* otherwise, the second call writes nothing, and enabled = b afterwards.
C4_Idempotent ==
    (AllIdle /\ prev.called /\ last.called /\ prev.set = last.set) =>
        /\ prev.writes = (IF prev.before # prev.set THEN 1 ELSE 0)
        /\ last.writes = 0
        /\ power.enabled = last.set

C4_Witness ==
    /\ AllIdle /\ prev.called /\ last.called
    /\ prev.set = last.set
    /\ prev.before # prev.set
    /\ prev.writes = 1 /\ last.writes = 0

\* C5: with attribute writes arriving concurrently and no lock, a state is
\* reachable in which every call has completed and the power line differs
\* from power.enabled (C5_Witness); such a state arises only when calls
\* have overlapped.
C5_MismatchOnlyByRace ==
    (Bound /\ AllIdle /\ LogicalValue(POWER) # power.enabled) => overlapped

C5_Witness ==
    /\ Bound /\ AllIdle
    /\ LogicalValue(POWER) # power.enabled

\* C6: when vbatt has been acquired and the power-enable property does not
\* resolve, probe returns -ENODEV, vbatt was never asserted, and the claim
\* on the vbatt line is gone once probe has returned.
C6_SecondLineUnavailable ==
    (ppc = "done" /\ power.vbatt_enable # NULL /\ env.of_power = "noent") =>
        /\ pret = -ENODEV
        /\ nwrites[VBATT] = 0
        /\ ~lines[VBATT].claimed

C6_Witness ==
    /\ ppc = "done" /\ power.vbatt_enable = VBATT /\ env.of_power = "noent"
    /\ pret = -ENODEV
    /\ ~lines[VBATT].claimed

\* C7: for each of the two lines, a lookup that is deferred makes probe
\* return -EPROBE_DEFER.
C7_DeferredReported ==
    /\ (ppc = "done" /\ env.alloc_ok /\ env.of_vbatt = "defer") =>
            pret = -EPROBE_DEFER
    /\ (ppc = "done" /\ power.vbatt_enable # NULL /\ env.of_power = "defer") =>
            pret = -EPROBE_DEFER

\* a step taken by or for a write that does not parse: the step that
\* serves it, or a step while it is in progress
FailedStoreStep ==
    \/ /\ ncalls' = ncalls + 1
       /\ thr' = thr
       /\ last'.op = "store"
       /\ last'.kret # 0
    \/ \E t \in Threads : thr[t].op = "store" /\ thr[t].kret # 0

\* C8: an attribute write that does not parse returns a parse error and
\* changes neither power.enabled nor a line nor the write counts, and a
\* read that follows returns what a read before it returned.
C8_InvalidWriteRejected ==
    /\ [][FailedStoreStep =>
            power' = power /\ lines' = lines /\ nwrites' = nwrites]_vars
    /\ [](AllIdle /\ last.op = "store" /\ last.kret # 0 =>
            /\ last.ret = last.kret
            /\ last.ret \in {-EINVAL, -ERANGE}
            /\ ~last.called /\ last.writes = 0
            /\ power.enabled = last.before)
    /\ [](prev.op = "store" /\ prev.failed /\ last.op = "show" =>
            last.out = TextOf(prev.before))

C8_Witness ==
    /\ prev.op = "store" /\ prev.failed /\ prev.before
    /\ last.op = "show" /\ last.out = <<"1", "\n">>

\* C9: an attribute write that parses to v returns the input size, leaves
\* power.enabled = (v # 0), and a read that follows returns "1\n" when
\* v # 0 and "0\n" when v = 0.
C9_WriteThenRead ==
    /\ (AllIdle /\ last.op = "store" /\ last.ret >= 0) =>
            /\ last.ret = last.size
            /\ power.enabled = (last.sgn # 0)
    /\ (prev.op = "store" /\ ~prev.failed /\ last.op = "show") =>
            last.out = TextOf(prev.sgn # 0)

C9_Witness ==
    /\ prev.op = "store" /\ ~prev.failed /\ prev.sgn = -1 /\ ~prev.before
    /\ last.op = "show" /\ last.out = <<"1", "\n">>

\* C10: suspend leaves enabled false and resume leaves it true, with one
\* power-line write when the state changes and none when it does not, so
\* suspend followed by resume ends enabled.
C10_SuspendResumeForce ==
    /\ (AllIdle /\ last.op = "suspend") =>
            /\ ~power.enabled
            /\ last.writes = (IF last.before THEN 1 ELSE 0)
    /\ (AllIdle /\ last.op = "resume") =>
            /\ power.enabled
            /\ last.writes = (IF last.before THEN 0 ELSE 1)
    /\ (AllIdle /\ prev.op = "suspend" /\ last.op = "resume") =>
            power.enabled

C10_Witness ==
    /\ AllIdle
    /\ prev.op = "suspend" /\ prev.before /\ prev.writes = 1
    /\ last.op = "resume" /\ last.writes = 1
    /\ power.enabled

\* C11: once probe has failed, on whichever path, the attribute group does
\* not exist and no call has reached or is in the driver.
C11_NoAttributeAfterFailure ==
    (ppc = "done" /\ pret # 0) => (~sysfs /\ ncalls = 0 /\ AllIdle)

C11_Witness ==
    /\ ppc = "done" /\ pret = -ENOMEM
    /\ power.power_enable = POWER
    /\ dwell >= DWELL_MS
    /\ ~sysfs

\* C12: when probe has returned 0 and no call has been made, enabled is
\* false, the power line is logically false and vbatt is logically true,
\* whatever the polarities of the two lines.
C12_InitiallyDisabled ==
    (Bound /\ ncalls = 0) =>
        /\ ~power.enabled
        /\ ~LogicalValue(POWER)
        /\ LogicalValue(VBATT)

C12_Witness ==
    /\ Bound /\ ncalls = 0
    /\ env.vbatt_low /\ ~env.power_low
    /\ lines[VBATT].level = 0 /\ lines[POWER].level = 0
    /\ ~power.enabled

\* C13: every call that enters power_set returns, and it returns no
\* error: suspend and resume return 0, a parsed attribute write returns
\* its size.
C13_Infallible ==
    /\ [](last.called => last.ret >= 0)
    /\ [](last.op \in {"suspend", "resume"} => last.ret = 0)
    /\ \A t \in Threads : (thr[t].pc # "idle") ~> (thr[t].pc = "idle")

C13_Witness ==
    /\ AllIdle
    /\ prev.op = "resume" /\ prev.writes = 1
    /\ last.op = "suspend" /\ last.writes = 1 /\ last.ret = 0

\* C14: with sequential callers, power.enabled changes only in the
\* assignment of a power_set whose argument differed from enabled, after
\* that call has written the power line once, to the argument; the power
\* line is written only by such a call; and once the calls have returned
\* the writes of the power line number the changes of enabled.
C14_OnlyTransitions ==
    /\ [][power.enabled' # power.enabled =>
            \E t \in Threads :
                /\ thr[t].pc = "set_flag" /\ thr'[t].pc = "idle"
                /\ thr[t].called
                /\ thr[t].set # thr[t].before
                /\ power.enabled' = thr[t].set
                /\ thr[t].writes = 1
                /\ LogicalValue(POWER) = thr[t].set]_vars
    /\ [][nwrites'[POWER] # nwrites[POWER] =>
            \E t \in Threads :
                /\ thr[t].pc = "set_line" /\ thr'[t].pc = "set_flag"
                /\ thr[t].set # power.enabled
                /\ nwrites'[POWER] = nwrites[POWER] + 1
                /\ LogicalValue(POWER)' = thr[t].set]_vars
    /\ [][/\ nflips' \in {nflips, nflips + 1}
          /\ (nflips' # nflips) <=> (power.enabled' # power.enabled)]_vars
    /\ [](AllIdle => nwrites[POWER] = nflips)

C14_Witness ==
    /\ Bound /\ AllIdle
    /\ nsets >= 3
    /\ nflips = 2 /\ nwrites[POWER] = 2
    /\ last.called /\ last.writes = 0

\* C15: the step that acquires a line leaves it with the polarity its own
\* device-tree entry configures and at the level of logical false for that
\* polarity (active-low: high, active-high: low), for the vbatt line and
\* for the power line alike, whatever the polarity of the other line.
C15_AcquiredAtLogicalFalse ==
    /\ [][(~lines[VBATT].claimed /\ lines'[VBATT].claimed) =>
            /\ lines'[VBATT].active_low = env.vbatt_low
            /\ lines'[VBATT].level = (IF env.vbatt_low THEN 1 ELSE 0)
            /\ ~LogicalValue(VBATT)']_vars
    /\ [][(~lines[POWER].claimed /\ lines'[POWER].claimed) =>
            /\ lines'[POWER].active_low = env.power_low
            /\ lines'[POWER].level = (IF env.power_low THEN 1 ELSE 0)
            /\ ~LogicalValue(POWER)']_vars

C15_Witness ==
    /\ ppc = "assert_vbatt"
    /\ ~env.vbatt_low /\ env.power_low
    /\ lines[VBATT].claimed /\ lines[POWER].claimed
    /\ ~lines[VBATT].active_low /\ lines[VBATT].level = 0
    /\ lines[POWER].active_low /\ lines[POWER].level = 1

\* C16: the vbatt line is written only while both lines are held, and the
\* write asserts it; a probe that returned the error of a failed lookup or
\* request of either line has never written the vbatt line, which, where
\* it was acquired, is still at the level of logical false.
C16_VbattAfterBothAcquired ==
    /\ [][nwrites'[VBATT] # nwrites[VBATT] =>
            /\ lines[VBATT].claimed /\ lines[POWER].claimed
            /\ power.vbatt_enable = VBATT /\ power.power_enable = POWER
            /\ ~LogicalValue(VBATT) /\ LogicalValue(VBATT)']_vars
    /\ []((ppc = "done" /\ pret \in {-ENOENT, -EPROBE_DEFER, -ENODEV}) =>
            /\ nwrites[VBATT] = 0
            /\ dwell = 0
            /\ (power.vbatt_enable = VBATT =>
                    lines[VBATT].level = (IF env.vbatt_low THEN 1 ELSE 0)))
    /\ []((lines[VBATT].claimed /\ ~lines[POWER].claimed) =>
            ~LogicalValue(VBATT))

C16_Witness ==
    /\ ppc = "done" /\ pret = -ENODEV
    /\ power.vbatt_enable = VBATT /\ power.power_enable = NULL
    /\ env.of_power = "ok" /\ ~env.power_free
    /\ env.vbatt_low /\ lines[VBATT].level = 1
    /\ nwrites[VBATT] = 0

\* C17: when the power_set calls that ran together began with the power
\* line's logical value equal to enabled and were at most two, the line's
\* logical value equals enabled once they have returned; a mismatch with
\* no call in progress takes at least three power_set calls.
C17_TwoCallsEndConsistent ==
    /\ (Bound /\ AllIdle /\ busy.ok /\ busy.n <= 2) =>
            LogicalValue(POWER) = power.enabled
    /\ (Bound /\ AllIdle /\ LogicalValue(POWER) # power.enabled) =>
            nsets >= 3

C17_Witness ==
    /\ Bound /\ AllIdle
    /\ nsets = 3 /\ busy.n = 2 /\ busy.ok
    /\ last.called /\ prev.called
    /\ last.set # prev.set
    /\ last.writes = 1 /\ prev.writes = 1
    /\ LogicalValue(POWER) = power.enabled

\* C18: the test of line 42 and the assignment of line 46 are separate
\* steps, so two power_set(b) calls begun while enabled # b can both pass
\* the test and both write the power line, giving two writes for one change
\* of enabled (the witness); the writes of the power line are never fewer
\* than the changes of enabled, and exceed them only when calls overlapped.
C18_ExtraWritesOnlyByRace ==
    /\ AllIdle => nflips <= nwrites[POWER]
    /\ (AllIdle /\ nwrites[POWER] > nflips) => overlapped

C18_Witness ==
    /\ Bound /\ AllIdle
    /\ nsets = 2 /\ busy.n = 2 /\ busy.ok
    /\ last.called /\ prev.called
    /\ last.set = prev.set
    /\ last.before # last.set /\ prev.before # prev.set
    /\ last.writes = 1 /\ prev.writes = 1
    /\ nflips = 1 /\ nwrites[POWER] = 2
    /\ LogicalValue(POWER) = power.enabled

====
